---- MODULE Spec2Model ----
(***************************************************************************)
(* Model of pygdf's Buffer (src/pygdf/buffer.py) and of its Index          *)
(* hierarchy (src/pygdf/index.py).                                         *)
(*                                                                         *)
(* A device array is a record [dtype, data]; data is the sequence of its   *)
(* elements (1-based here, 0-based in the source).  A python object that   *)
(* may be None is None (the empty sequence) or the record itself; an       *)
(* integer that may be None is None or Some(integer).                      *)
(***************************************************************************)
EXTENDS Integers, Sequences, FiniteSets, TLC

VARIABLES buf, out, sent, exports, ret, idx, res

bufvars == <<buf, out, sent, exports, ret>>
idxvars == <<idx, res>>
vars == <<buf, out, sent, exports, ret, idx, res>>

\* ---------------------------------------------------------------- bounds
\* longest device array handed to a Buffer constructor
MaxLen == 2
\* longest array handed to extend
MaxExtend == 2
\* get_ipc_handle calls counted per Buffer before the count stops the model
MaxExports == 2
\* largest label, range bound and find_label_range argument
MaxLabel == 3
\* longest column or array handed to an index constructor
MaxCol == 2

\* ------------------------------------------------------- python optionals
None == <<>>
Some(v) == <<v>>
Get(o) == o[1]

Min(a, b) == IF a < b THEN a ELSE b
Max(a, b) == IF a > b THEN a ELSE b

\* ------------------------------------------------------------ device data
DTypes == {"uint8", "uint16"}

\* the element values the model draws for an array of each dtype
Elems(dtype) == IF dtype = "uint8" THEN {1, 2} ELSE {1, 257}

SeqsUpTo(S, n) == UNION {[1..k -> S] : k \in 0..n}

Arrays(n) == UNION {{[dtype |-> d, data |-> s] : s \in SeqsUpTo(Elems(d), n)} : d \in DTypes}

\* numpy's cast of one unsigned integer to dtype: the value modulo 2^width
cast(v, dtype) == IF dtype = "uint8" THEN v % 256 ELSE v % 65536

\* cudautils.astype: every element of the array cast, a new array
cudautils_astype(array, dtype) ==
    [dtype |-> dtype, data |-> [i \in 1..Len(array.data) |-> cast(array.data[i], dtype)]]

\* cudautils.to_device: a device array is used as it is
to_device(mem) == mem

\* cudautils.copy_array / cudautils.as_contiguous: a new array, same elements
copy_array(mem) == mem
as_contiguous(mem) == mem

\* python's mem[lo:hi] on a one-dimensional array, 0 <= lo, 0 <= hi
PySlice(mem, lo, hi) ==
    LET n == Len(mem.data)
        a == Min(lo, n)
        b == Min(hi, n)
    IN [dtype |-> mem.dtype, data |-> IF b <= a THEN <<>> ELSE SubSeq(mem.data, a + 1, b)]

\* ----------------------------------------------------------------- Buffer
Buffer(mem, size, capacity) ==
    LET sz == IF size = None THEN Len(mem.data) ELSE Get(size)
        cap == IF capacity = None THEN sz ELSE Get(capacity)
    IN [mem |-> to_device(mem), size |-> sz, capacity |-> cap,
        dtype |-> mem.dtype, cached_ipch |-> None]

from_empty(mem) == Buffer(mem, Some(0), Some(Len(mem.data)))

null(dtype) == Buffer([dtype |-> dtype, data |-> <<>>], Some(0), Some(0))

avail_space(b) == b.capacity - b.size

\* faulty variant of _sentry_capacity: compares with capacity, forgetting size
sentry_capacity_nosize(b, size_needed) == size_needed > b.capacity
\* TRUE when _sentry_capacity raises MemoryError
sentry_capacity(b, size_needed) == size_needed > avail_space(b)

to_gpu_array(b) == PySlice(b.mem, 0, b.size)

to_array(b) == to_gpu_array(b)

Raised(b, err) == [ok |-> FALSE, err |-> err, buf |-> b]

\* self.mem[at:].copy_to_device(array): array lands at 0-based positions at, at+1, ...
copy_to_device(mem, at, array) ==
    [mem EXCEPT !.data = [i \in 1..Len(mem.data) |->
        IF at < i /\ i <= at + Len(array.data) THEN array.data[i - at] ELSE mem.data[i]]]

\* faulty variant of extend: copies into self.mem[:] instead of self.mem[self.size:]
extend_from_start(b, array) ==
    LET needed == Len(array.data)
    IN IF sentry_capacity(b, needed) THEN Raised(b, "MemoryError")
       ELSE [ok |-> TRUE, err |-> "",
             buf |-> [b EXCEPT !.mem = copy_to_device(b.mem, 0, cudautils_astype(array, b.dtype)),
                               !.size = b.size + needed]]

extend(b, array) ==
    LET needed == Len(array.data)
    IN IF sentry_capacity(b, needed) THEN Raised(b, "MemoryError")
       ELSE [ok |-> TRUE, err |-> "",
             buf |-> [b EXCEPT !.mem = copy_to_device(b.mem, b.size, cudautils_astype(array, b.dtype)),
                               !.size = b.size + needed]]

\* np.asarray(element, dtype=self.dtype)
np_asarray(element, dtype) == [dtype |-> dtype, data |-> <<cast(element, dtype)>>]

append(b, element) ==
    IF sentry_capacity(b, 1) THEN Raised(b, "MemoryError")
    ELSE extend(b, np_asarray(element, b.dtype))

\* [same |-> TRUE] when astype returns self, else the new Buffer
astype(b, dtype) ==
    IF b.dtype = dtype THEN [same |-> TRUE, buf |-> b]
    ELSE [same |-> FALSE, buf |-> Buffer(cudautils_astype(b.mem, dtype), None, None)]

copy(b) == Buffer(copy_array(b.mem), Some(b.size), Some(b.capacity))

Buffer_as_contiguous(b) == Buffer(as_contiguous(b.mem), Some(b.size), Some(b.capacity))

\* Buffer.__getitem__ with a slice lo:hi
getitem_slice(b, lo, hi) == Buffer(PySlice(to_gpu_array(b), lo, hi), None, None)

\* DeviceNDArray.get_ipc_handle on a view of n elements; serial tells the
\* handles of different exports apart
get_ipc_handle(view, serial) == [n |-> Len(view.data), serial |-> serial]

\* faulty variant of serialize: exports a handle every time, never caching it
serialize_no_cache(b, use_ipc, exp) ==
    IF use_ipc
    THEN LET ipch == get_ipc_handle(to_gpu_array(b), exp + 1)
         IN [buf |-> b, sent |-> [kind |-> "ipc", ipch |-> ipch],
             exports |-> exp + 1, reused |-> FALSE]
    ELSE [buf |-> b, sent |-> [kind |-> "normal", mem |-> to_array(b)],
          exports |-> exp, reused |-> FALSE]

\* Buffer.serialize; exp counts the get_ipc_handle calls made so far
serialize(b, use_ipc, exp) ==
    IF use_ipc
    THEN LET reuse == b.cached_ipch # None
             ipch == IF reuse THEN b.cached_ipch
                     ELSE get_ipc_handle(to_gpu_array(b), exp + 1)
         IN [buf |-> [b EXCEPT !.cached_ipch = ipch],
             sent |-> [kind |-> "ipc", ipch |-> ipch],
             exports |-> IF reuse THEN exp ELSE exp + 1, reused |-> reuse]
    ELSE [buf |-> b, sent |-> [kind |-> "normal", mem |-> to_array(b)],
          exports |-> exp, reused |-> FALSE]

\* Buffer.deserialize of payload p; live is the exporting Buffer's memory,
\* which an opened handle reads
deserialize(p, live) ==
    IF p.kind = "ipc" THEN Buffer(PySlice(live, 0, p.ipch.n), None, None)
    ELSE Buffer(p.mem, None, None)

\* ------------------------------------------------------- Buffer operations
OptInts(n) == {None} \cup {Some(k) : k \in 0..n}

\* Buffer(mem, size, capacity): the program makes a new Buffer; size and
\* capacity, when given, stay within the memory handed over
NewBuffer ==
    \E mem \in Arrays(MaxLen) :
      \E size \in OptInts(Len(mem.data)), capacity \in OptInts(Len(mem.data)) :
        /\ buf = None
        /\ buf' = Buffer(mem, size, capacity)
        /\ out' = None /\ sent' = None /\ exports' = 0
        /\ ret' = [op |-> "Buffer"]
        /\ UNCHANGED idxvars

FromEmpty ==
    \E mem \in Arrays(MaxLen) :
        /\ buf = None
        /\ buf' = from_empty(mem)
        /\ out' = None /\ sent' = None /\ exports' = 0
        /\ ret' = [op |-> "from_empty"]
        /\ UNCHANGED idxvars

Null ==
    \E dtype \in DTypes :
        /\ buf = None
        /\ buf' = null(dtype)
        /\ out' = None /\ sent' = None /\ exports' = 0
        /\ ret' = [op |-> "null"]
        /\ UNCHANGED idxvars

AppendCall ==
    /\ buf # None
    /\ \E element \in Elems(buf.dtype) :
        LET r == append(buf, element)
        IN /\ buf' = r.buf
           /\ out' = None
           /\ ret' = [op |-> "append", ok |-> r.ok, err |-> r.err,
                      arg |-> np_asarray(element, buf.dtype)]
           /\ UNCHANGED <<sent, exports>>
           /\ UNCHANGED idxvars

ExtendCall ==
    /\ buf # None
    /\ \E array \in Arrays(MaxExtend) :
        LET r == extend(buf, array)
        IN /\ buf' = r.buf
           /\ out' = None
           /\ ret' = [op |-> "extend", ok |-> r.ok, err |-> r.err, arg |-> array]
           /\ UNCHANGED <<sent, exports>>
           /\ UNCHANGED idxvars

Astype ==
    /\ buf # None
    /\ \E dtype \in DTypes :
        LET r == astype(buf, dtype)
        IN /\ out' = IF r.same THEN None ELSE r.buf
           /\ ret' = [op |-> "astype", dtype |-> dtype,
                      ref |-> IF r.same THEN "self" ELSE "out"]
           /\ UNCHANGED <<buf, sent, exports>>
           /\ UNCHANGED idxvars

Copy ==
    /\ buf # None
    /\ out' = copy(buf)
    /\ ret' = [op |-> "copy"]
    /\ UNCHANGED <<buf, sent, exports>>
    /\ UNCHANGED idxvars

AsContiguous ==
    /\ buf # None
    /\ out' = Buffer_as_contiguous(buf)
    /\ ret' = [op |-> "as_contiguous"]
    /\ UNCHANGED <<buf, sent, exports>>
    /\ UNCHANGED idxvars

GetSlice ==
    \E lo \in 0..MaxLen, hi \in 0..MaxLen :
        /\ buf # None
        /\ out' = getitem_slice(buf, lo, hi)
        /\ ret' = [op |-> "getitem", lo |-> lo, hi |-> hi]
        /\ UNCHANGED <<buf, sent, exports>>
        /\ UNCHANGED idxvars

Serialize ==
    \E use_ipc \in BOOLEAN :
        /\ buf # None
        /\ exports < MaxExports
        /\ LET r == serialize(buf, use_ipc, exports)
           IN /\ buf' = r.buf
              /\ sent' = r.sent
              /\ exports' = r.exports
              /\ ret' = [op |-> "serialize", use_ipc |-> use_ipc, reused |-> r.reused]
        /\ out' = None
        /\ UNCHANGED idxvars

Deserialize ==
    /\ buf # None
    /\ sent # None
    /\ out' = deserialize(sent, buf.mem)
    /\ ret' = [op |-> "deserialize"]
    /\ UNCHANGED <<buf, sent, exports>>
    /\ UNCHANGED idxvars


\* ------------------------------------------------------------------ Index
\* A column is a record [dtype, data, null_count]: data holds one value per
\* row, null_count of the rows are masked out as null.
NumericalColumn(data, null_count) == [dtype |-> "int64", data |-> data, null_count |-> null_count]

DatetimeColumn_from_numpy(values) == [dtype |-> "datetime64", data |-> values, null_count |-> 0]

RangeIndex(start, stop) ==
    IF stop = None THEN [kind |-> "range", start |-> 0, stop |-> start]
    ELSE [kind |-> "range", start |-> start, stop |-> Get(stop)]

\* cudautils.arange(start, stop)
arange(start, stop) == [i \in 1..Max(0, stop - start) |-> start + i - 1]

RangeIndex_len(r) == Max(0, r.stop - r.start)

RangeIndex_as_column(r) ==
    IF RangeIndex_len(r) > 0 THEN NumericalColumn(arange(r.start, r.stop), 0)
    ELSE NumericalColumn(<<>>, 0)

as_column(ix) == IF ix.kind = "range" THEN RangeIndex_as_column(ix) ELSE ix.values

len(ix) == IF ix.kind = "range" THEN RangeIndex_len(ix) ELSE Len(ix.values.data)

\* the value a failed assert leaves in place of an index
AssertionError == [kind |-> "AssertionError"]

\* GenericIndex.__new__; v is [raw |-> TRUE, data] for a raw array, else a column
GenericIndex(v) ==
    LET values == IF "raw" \in DOMAIN v THEN NumericalColumn(v.data, 0) ELSE v
    IN IF values.null_count = 0 THEN [kind |-> "generic", values |-> values]
       ELSE AssertionError

\* DatetimeIndex.__new__
DatetimeIndex(v) ==
    LET values == IF "raw" \in DOMAIN v THEN DatetimeColumn_from_numpy(v.data) ELSE v
    IN [kind |-> "datetime", values |-> values]

\* Column.unordered_compare('eq', rhs).all() on columns of equal length
unordered_compare_eq_all(lhs, rhs) ==
    \A i \in 1..Len(lhs.data) : lhs.data[i] = rhs.data[i]

Index_eq(self, other) ==
    IF len(self) # len(other) THEN FALSE
    ELSE unordered_compare_eq_all(as_column(self), as_column(other))

RangeIndex_eq(self, other) ==
    IF other.kind = "range" THEN self.start = other.start /\ self.stop = other.stop
    ELSE Index_eq(self, other)

\* self == other, dispatched on the class of self
eq(self, other) == IF self.kind = "range" THEN RangeIndex_eq(self, other) ELSE Index_eq(self, other)

\* RangeIndex.find_label_range; first and last are None or Some(label)
find_label_range(self, first, last) ==
    LET begin == IF first = None \/ Get(first) < self.start THEN self.start
                 ELSE IF Get(first) < self.stop THEN Get(first)
                 ELSE self.stop
        end == IF last = None THEN self.stop
               ELSE IF Get(last) < self.start THEN begin
               ELSE IF Get(last) < self.stop THEN Get(last) + 1
               ELSE self.stop
    IN <<begin - self.start, end - self.start>>

\* cudautils.gather(data, index): data at the 0-based positions of index
gather(data, index) == [i \in 1..Len(index) |-> data[index[i] + 1]]

\* Column.replace(data=...): the same column with other data
replace_data(col, data) == [col EXCEPT !.data = data]

take(self, indices) ==
    IF Len(indices) = 0 THEN RangeIndex(Len(indices), None)
    ELSE GenericIndex(replace_data(as_column(self), gather(as_column(self).data, indices)))

\* Column.__getitem__(slice lo:hi); nulls is how many of the kept rows are null
column_slice(col, lo, hi, nulls) ==
    LET a == Min(lo, Len(col.data))
        b == Min(hi, Len(col.data))
    IN [col EXCEPT !.data = IF b <= a THEN <<>> ELSE SubSeq(col.data, a + 1, b),
                   !.null_count = nulls]

\* utils.normalize_slice(slice(lo, hi), n) for 0 <= lo, 0 <= hi
normalize_slice(lo, hi, n) == <<Min(lo, n), Min(hi, n)>>

RangeIndex_getitem(self, lo, hi) ==
    LET ns == normalize_slice(lo, hi, RangeIndex_len(self))
    IN RangeIndex(ns[1] + self.start, Some(ns[2] + self.start))

GenericIndex_getitem(self, lo, hi, nulls) == GenericIndex(column_slice(self.values, lo, hi, nulls))

\* Column._concat
Column_concat(cols) ==
    [dtype |-> cols[1].dtype, data |-> cols[1].data \o cols[2].data,
     null_count |-> cols[1].null_count + cols[2].null_count]

Index_concat(objs) == GenericIndex(Column_concat(<<as_column(objs[1]), as_column(objs[2])>>))

\* Column.join(other, how='left', return_indexers=True): one row per row of lhs
Column_join_left(lhs, rhs) == lhs

join(self, other) == GenericIndex(Column_join_left(as_column(self), as_column(other)))

\* one calendar field of a timestamp given in seconds since the epoch
FieldOf(v, field) ==
    CASE field = "year" -> 1970 + (v \div 31536000)
      [] field = "month" -> 1 + ((v \div 2678400) % 12)
      [] field = "day" -> 1 + ((v \div 86400) % 31)
      [] field = "hour" -> (v \div 3600) % 24
      [] field = "minute" -> (v \div 60) % 60
      [] OTHER -> v % 60

\* DatetimeColumn.get_dt_field: the field of every row, mask and null_count kept
Column_get_dt_field(col, field) ==
    [dtype |-> "int16", data |-> [i \in 1..Len(col.data) |-> FieldOf(col.data[i], field)],
     null_count |-> col.null_count]

get_dt_field(self, field) ==
    LET out_column == Column_get_dt_field(self.values, field)
    IN GenericIndex([dtype |-> out_column.dtype, data |-> out_column.data,
                     null_count |-> out_column.null_count])

\* ------------------------------------------------------- Index operations
Labels == 0..MaxLabel

Slots == {1, 2}

Columns(dtype) ==
    UNION {{[dtype |-> dtype, data |-> s, null_count |-> n] : n \in 0..Len(s)} :
           s \in SeqsUpTo(0..1, MaxCol)}

RawArrays == {[raw |-> TRUE, data |-> s] : s \in SeqsUpTo(0..1, MaxCol)}

Fields == {"year", "month", "day", "hour", "minute", "second"}

IsIndex(x) == x # None /\ x.kind \in {"range", "generic", "datetime"}

Result(op, r) == [op |-> op, ok |-> r # AssertionError, index |-> r]

NewRangeIndex ==
    \E slot \in Slots, start \in Labels, stop \in {None} \cup {Some(k) : k \in Labels} :
        /\ idx[slot] = None
        /\ idx' = [idx EXCEPT ![slot] = RangeIndex(start, stop)]
        /\ res' = [op |-> "RangeIndex"]
        /\ UNCHANGED bufvars

NewGenericIndex ==
    \E slot \in Slots, v \in RawArrays \cup Columns("int64") :
        /\ idx[slot] = None
        /\ LET r == GenericIndex(v)
           IN /\ idx' = IF r = AssertionError THEN idx ELSE [idx EXCEPT ![slot] = r]
              /\ res' = [op |-> "GenericIndex", ok |-> r # AssertionError, arg |-> v]
        /\ UNCHANGED bufvars

NewDatetimeIndex ==
    \E slot \in Slots, v \in RawArrays \cup Columns("datetime64") :
        /\ idx[slot] = None
        /\ idx' = [idx EXCEPT ![slot] = DatetimeIndex(v)]
        /\ res' = [op |-> "DatetimeIndex", ok |-> TRUE, arg |-> v]
        /\ UNCHANGED bufvars

Equals ==
    /\ idx[1] # None /\ idx[2] # None
    /\ res' = [op |-> "eq", value |-> eq(idx[1], idx[2])]
    /\ UNCHANGED idx
    /\ UNCHANGED bufvars

FindLabelRange ==
    \E first \in {None} \cup {Some(k) : k \in Labels}, last \in {None} \cup {Some(k) : k \in Labels} :
        /\ idx[1] # None /\ idx[1].kind = "range"
        /\ LET r == find_label_range(idx[1], first, last)
           IN res' = [op |-> "find_label_range", first |-> first, last |-> last,
                      begin |-> r[1], end |-> r[2]]
        /\ UNCHANGED idx
        /\ UNCHANGED bufvars

Take ==
    /\ idx[1] # None
    /\ \E indices \in SeqsUpTo(0..(len(idx[1]) - 1), MaxCol) :
        res' = Result("take", take(idx[1], indices))
    /\ UNCHANGED idx
    /\ UNCHANGED bufvars

GetItem ==
    \E lo \in 0..MaxCol, hi \in 0..MaxCol :
        /\ idx[1] # None
        /\ \/ /\ idx[1].kind = "range"
              /\ res' = Result("getitem", RangeIndex_getitem(idx[1], lo, hi))
           \/ /\ idx[1].kind # "range"
              /\ \E nulls \in 0..Min(idx[1].values.null_count, Max(0, Min(hi, len(idx[1])) - lo)) :
                    res' = Result("getitem", GenericIndex_getitem(idx[1], lo, hi, nulls))
        /\ UNCHANGED idx
        /\ UNCHANGED bufvars

Concat ==
    /\ idx[1] # None /\ idx[2] # None
    /\ res' = Result("concat", Index_concat(idx))
    /\ UNCHANGED idx
    /\ UNCHANGED bufvars

Join ==
    /\ idx[1] # None /\ idx[2] # None
    /\ res' = Result("join", join(idx[1], idx[2]))
    /\ UNCHANGED idx
    /\ UNCHANGED bufvars

GetDtField ==
    \E field \in Fields :
        /\ idx[1] # None /\ idx[1].kind = "datetime"
        /\ res' = Result("get_dt_field", get_dt_field(idx[1], field))
        /\ UNCHANGED idx
        /\ UNCHANGED bufvars

\* ------------------------------------------------------- specifications
\* no Buffer has been made yet
BufInit ==
    /\ buf = None
    /\ out = None /\ sent = None /\ exports = 0
    /\ ret = [op |-> "start"]

\* no index has been made yet
IdxInit ==
    /\ idx = <<None, None>>
    /\ res = [op |-> "start"]

Init == BufInit /\ IdxInit

NextBuffer ==
    \/ NewBuffer
    \/ FromEmpty
    \/ Null
    \/ AppendCall
    \/ ExtendCall
    \/ Astype
    \/ Copy
    \/ AsContiguous
    \/ GetSlice
    \/ Serialize
    \/ Deserialize

NextIndex ==
    \/ NewRangeIndex
    \/ NewGenericIndex
    \/ NewDatetimeIndex
    \/ Equals
    \/ FindLabelRange
    \/ Take
    \/ GetItem
    \/ Concat
    \/ Join
    \/ GetDtField

Next == NextBuffer \/ NextIndex

\* the whole program
Spec == Init /\ [][Next]_vars

\* one Buffer and the calls made on it
SpecBuffer == Init /\ [][NextBuffer]_vars

\* two indexes and the calls made on them
SpecIndex == Init /\ [][NextIndex]_vars

\* ----------------------------------------------------------------- claims
SizeWithinCapacity(b) == 0 <= b.size /\ b.size <= b.capacity

\* C1: every Buffer that exists, the one operated on and every Buffer returned
\* by slicing, copy, astype, as_contiguous or deserialize, has
\* 0 <= size <= capacity, whatever arguments the constructor was given.
C1_EveryBufferWithinCapacity ==
    /\ buf # None => SizeWithinCapacity(buf)
    /\ out # None => SizeWithinCapacity(out)

\* C2: an append or extend that needs more than avail_space fails with the
\* capacity error (MemoryError) and leaves the whole Buffer (size, capacity,
\* every element) as it was before the call.
C2_FailedGrowthChangesNothing ==
    [][(ret'.op \in {"append", "extend"} /\ Len(ret'.arg.data) > avail_space(buf))
        => (~ret'.ok /\ ret'.err = "MemoryError" /\ buf' = buf)]_vars

\* a non-empty Buffer within its capacity has just refused a two-element extend
C2_Witness ==
    /\ ret.op = "extend" /\ ~ret.ok /\ ret.err = "MemoryError"
    /\ Len(ret.arg.data) = 2
    /\ buf.size > 0 /\ buf.size <= buf.capacity

\* C3: append and extend never change capacity and never decrease size; a
\* successful one of n elements had n <= avail_space, increases size by n,
\* keeps the elements at [0, old size) and writes the incoming elements, cast
\* to the Buffer's dtype, at [old size, old size + n) in order.
C3_GrowthWritesTheTail ==
    [][ret'.op \in {"append", "extend"} =>
        /\ buf'.capacity = buf.capacity
        /\ buf'.size >= buf.size
        /\ ret'.ok =>
            LET n == Len(ret'.arg.data)
            IN /\ n <= avail_space(buf)
               /\ buf'.size = buf.size + n
               /\ Len(buf'.mem.data) = Len(buf.mem.data)
               /\ \A i \in 1..buf.size : buf'.mem.data[i] = buf.mem.data[i]
               /\ \A i \in 1..n : buf'.mem.data[buf.size + i] = cast(ret'.arg.data[i], buf.dtype)]_vars

\* a one-element extend has just succeeded on a Buffer that already held an element
C3_Witness ==
    /\ ret.op = "extend" /\ ret.ok
    /\ Len(ret.arg.data) = 1
    /\ buf.size = 2
    /\ ret.arg.dtype # buf.dtype

C9_HandleCoversOccupiedRegion ==
    (ret.op = "serialize" /\ ret.use_ipc) => sent.ipch.n = buf.size

\* C10: astype with the Buffer's own dtype returns the same Buffer; with
\* another dtype it returns a new Buffer of the same size whose elements
\* [0, size) are the casts of the original's.
C10_AstypeKeepsLogicalContents ==
    ret.op = "astype" =>
        IF ret.dtype = buf.dtype THEN ret.ref = "self"
        ELSE /\ ret.ref = "out"
             /\ out.size = buf.size
             /\ \A i \in 1..buf.size : out.mem.data[i] = cast(buf.mem.data[i], ret.dtype)

LabelsOf(ix) == as_column(ix).data

\* C4: for a and b each a RangeIndex or a GenericIndex, a == b is true exactly
\* when both have the same length and the same labels position by position.
C4_EqualIffSameLabels ==
    (res.op = "eq" /\ idx[1].kind \in {"range", "generic"} /\ idx[2].kind \in {"range", "generic"})
        => (res.value <=> LabelsOf(idx[1]) = LabelsOf(idx[2]))

NullFree(x) == (IsIndex(x) /\ x.kind \in {"generic", "datetime"}) => x.values.null_count = 0

\* C5: every GenericIndex (DatetimeIndex included) that exists, made by a
\* constructor or returned by take, slicing, _concat, join or a field accessor,
\* has a column with null_count 0, and constructing one from a column with
\* nulls fails.
C5_IndexColumnsHaveNoNulls ==
    /\ NullFree(idx[1]) /\ NullFree(idx[2])
    /\ res.op \in {"take", "getitem", "concat", "join", "get_dt_field"} => NullFree(res.index)
    /\ (res.op \in {"GenericIndex", "DatetimeIndex"} /\ "null_count" \in DOMAIN res.arg
            /\ res.arg.null_count > 0) => ~res.ok

\* C7: RangeIndex.find_label_range returns (first - start, last - start + 1)
\* for start <= first <= last < stop, begin = 0 for first=None and
\* end = len(index) for last=None.
C7_LabelRangePositions ==
    res.op = "find_label_range" =>
        LET r == idx[1]
        IN /\ (res.first # None /\ res.last # None /\ r.start <= Get(res.first)
                /\ Get(res.first) <= Get(res.last) /\ Get(res.last) < r.stop)
               => (res.begin = Get(res.first) - r.start /\ res.end = Get(res.last) - r.start + 1)
           /\ res.first = None => res.begin = 0
           /\ res.last = None => res.end = len(r)

\* C8: RangeIndex.find_label_range returns 0 <= begin <= end <= len(index) for
\* every range, empty ones included, and every first and last.
C8_LabelRangeIsValidInterval ==
    res.op = "find_label_range" =>
        (0 <= res.begin /\ res.begin <= res.end /\ res.end <= len(idx[1]))

====
